---- MODULE Spec2Model ----
(***************************************************************************)
(* The validator session pool (ValidatorClient) and the completion scorer  *)
(* (render_and_score) of the tldraw environment, as a state machine.       *)
(*                                                                         *)
(* Tasks are asyncio tasks of one event loop.  A step of the model is the  *)
(* code a task runs between two suspension points (awaits that really      *)
(* suspend); awaits that return without suspending (start() on a started   *)
(* pool, Queue.put on an unbounded queue, Queue.get on a non-empty queue,  *)
(* Lock.acquire on a free lock) are part of the step that reaches them.    *)
(* A task woken by Queue.put or Lock.release runs when the loop reaches it: *)
(* the loop runs the tasks it has woken in the order it woke them.          *)
(***************************************************************************)
EXTENDS Integers, Sequences, FiniteSets, TLC

\* ---- bounds of the model ----
NumTasks == 3       \* concurrent callers of validate
NumScorers == 2     \* concurrent callers of render_and_score / get_response_schema
MaxLaunches == 2    \* engines launched in one behaviour
NumLiveCallers == 2 \* concurrent callers of validate where progress is checked
MaxTextLen == 4     \* length of a completion text, in tokens
MaxLogLines == 2    \* lines appended to errors.jsonl in one behaviour
MaxSpawns == 3      \* validator server processes spawned in one behaviour
MaxPrompts == 4     \* prompts handed to get_openai_embeddings
MaxPromptLen == 3   \* characters of a prompt given to normalize_prompt

\* the default of the pool_size parameter; the model runs pools of 1..DefaultPoolSize
DefaultPoolSize == 2

Tasks == 1..(IF NumTasks > NumScorers THEN NumTasks ELSE NumScorers)
Callers == 1..NumTasks
Scorers == 1..NumScorers
LiveCallers == 1..NumLiveCallers
NoTask == 0
Engines == 1..MaxLaunches
\* A page (Session) is named by the engine that opened it and its index in
\* that engine's start() loop; every new_page() yields a fresh object.
Pages == Engines \X (1..DefaultPoolSize)
NoPage == <<0, 0>>

VARIABLES
    pool_size,      \* self.pool_size
    started,        \* self._started
    lock,           \* owner of self._lock, NoTask when free
    lockq,          \* self._lock._waiters: tasks suspended in Lock.acquire, oldest first
    ready,          \* the loop's ready queue: woken tasks that have not run yet
    browser,        \* self._browser: engine id, 0 for None
    launches,       \* number of engines launched so far
    closedEngines,  \* engines on which browser.close() has run
    opened,         \* loop counter of the running start(): pages opened so far
    queue,          \* self._queue: items of the asyncio.Queue
    getters,        \* self._queue._getters: tasks suspended in Queue.get, oldest first
    arrivals,       \* history: tasks at the lease point, in the order they began waiting
    pc,             \* where each task is suspended
    kind,           \* the call each task is making
    held,           \* the page a task holds inside _with_page
    ops,            \* per page: bridge operations issued on it since it was leased
    pending,        \* validate(): the result a task carries while it awaits the screenshot
    last,           \* the most recent call that ended: its outcome
    fn              \* the pure functions: an input and how far its evaluation has got

vars == <<pool_size, started, lock, lockq, ready, browser, launches, closedEngines,
          opened, queue, getters, arrivals, pc, kind, held, ops, pending, last, fn>>

Range(s) == {s[i] : i \in DOMAIN s}
Remove(s, x) == SelectSeq(s, LAMBDA y : y # x)

Holding == {"reset", "validate", "shot", "schema"}
Holders == {t \in Tasks : held[t] # NoPage}

\* ---- outcome of a call ----
NoResult == [errors |-> FALSE, action_errors |-> FALSE]

NoOut ==
    [kind |-> "none", status |-> "none", stage |-> "none", score |-> "none",
     render |-> "none", actions |-> FALSE, errors |-> FALSE, action_errors |-> FALSE]

\* render_and_score, last line: 1.0 iff result.get("errors") is falsy
ScoreOf(result) == IF ~result.errors THEN "1.0" ELSE "0.0"

\* a call of kind k that returns normally with the result `result`; for a
\* scoring call render_and_score stores the result and the actions in the
\* state mapping and returns the score
Returned(k, result) ==
    IF k = "score"
    THEN [kind |-> k, status |-> "returned", stage |-> "decide",
          score |-> ScoreOf(result), render |-> "result", actions |-> TRUE,
          errors |-> result.errors, action_errors |-> result.action_errors]
    ELSE [NoOut EXCEPT !.kind = k, !.status = "returned", !.stage = "decide"]

\* a call that ends by raising at stage st: render_and_score has no handler
\* around validator.validate, so the exception leaves it as well, with
\* nothing written to the state mapping
Raised(k, st) == [NoOut EXCEPT !.kind = k, !.status = "raised", !.stage = st]

\* the lines a call that ended with `out` appended to errors.jsonl: validate
\* and render_and_score return without calling log_error_payload, and the
\* ValidatorClient of tldraw.py has no error log
LinesAppended(out) == 0

\* how the message of the exception begins that a call raising at stage st
\* ends with: neither validate nor render_and_score catches or wraps what
\* playwright raised
ExceptionPrefix(st) ==
    CASE st = "transport" -> "Page.evaluate:"
      [] st = "start" -> "Page.goto:"
      [] OTHER -> "binascii.Error:"

\* render_and_score returning 0.0 before the Validate stage
EarlyReturn(st) ==
    [NoOut EXCEPT !.kind = "score", !.status = "returned", !.stage = st,
                  !.score = "0.0", !.render = "error"]

\* ---- asyncio.Queue ----
\* put_nowait: the item goes to the right end of the deque
QueuePut(q, p) == Append(q, p)

\* a get that leaves the item it returns in the queue
QueueGetKeep(q) == q

\* get_nowait: popleft
QueueGet(q) == Tail(q)

\* a wake-up of the getter that enlisted last
NewestGetter(g) == g[Len(g)]

\* _wakeup_next: the getter that enlisted first
NextGetter(g) == Head(g)

\* a put that appends the item and wakes nobody
PutPageNoWake(S, p) == [S EXCEPT !.queue = QueuePut(S.queue, p)]

\* Queue.put_nowait: append the item, wake the oldest getter
PutPage(S, p) ==
    IF S.getters = <<>>
    THEN [S EXCEPT !.queue = QueuePut(S.queue, p)]
    ELSE [S EXCEPT !.queue = QueuePut(S.queue, p),
                   !.getters = Remove(S.getters, NextGetter(S.getters)),
                   !.pc = [S.pc EXCEPT ![NextGetter(S.getters)] = "woken"],
                   !.ready = Append(S.ready, NextGetter(S.getters))]

\* Lock.release: free the lock and wake the oldest waiter, which stays among
\* the waiters until it runs
Unlock(S) ==
    IF S.lockq = <<>>
    THEN [S EXCEPT !.lock = NoTask]
    ELSE [S EXCEPT !.lock = NoTask,
                   !.pc = [S.pc EXCEPT ![Head(S.lockq)] = "lockwoken"],
                   !.ready = Append(S.ready, Head(S.lockq))]

FirstOp(k) == IF k = "schema" THEN "getResponseSchema" ELSE "reset"
FirstPc(k) == IF k = "schema" THEN "schema" ELSE "reset"

\* Queue.get as far as it runs without suspending: take the head of a
\* non-empty queue, else enlist at the tail of the getters and suspend
GetPage(S, t, k) ==
    IF S.queue # <<>>
    THEN [S EXCEPT !.queue = QueueGet(S.queue),
                   !.pc = [S.pc EXCEPT ![t] = FirstPc(k)],
                   !.held = [S.held EXCEPT ![t] = Head(S.queue)],
                   !.ops = [S.ops EXCEPT ![Head(S.queue)] = <<<<t, FirstOp(k)>>>>],
                   !.arrivals = Remove(S.arrivals, t)]
    ELSE [S EXCEPT !.getters = Append(S.getters, t),
                   !.pc = [S.pc EXCEPT ![t] = "wait"],
                   !.arrivals = IF t \in Range(S.arrivals) THEN S.arrivals
                                ELSE Append(S.arrivals, t)]

Here == [queue |-> queue, getters |-> getters, pc |-> pc, held |-> held,
         ops |-> ops, arrivals |-> arrivals, lock |-> lock, lockq |-> lockq,
         ready |-> ready]

Set(S) ==
    /\ lock' = S.lock
    /\ lockq' = S.lockq
    /\ ready' = S.ready
    /\ queue' = S.queue
    /\ getters' = S.getters
    /\ pc' = S.pc
    /\ held' = S.held
    /\ ops' = S.ops
    /\ arrivals' = S.arrivals

\* _with_page, finally: put the page back; the call is over
ReleasePage(S, t) ==
    PutPage([S EXCEPT !.pc = [S.pc EXCEPT ![t] = "idle"],
                      !.held = [S.held EXCEPT ![t] = NoPage],
                      !.ops = [S.ops EXCEPT ![S.held[t]] = <<>>]],
            S.held[t])

\* a release that happens only when the body of the with-block returned
ReleaseOnReturn(S, t, raised) ==
    IF raised
    THEN [S EXCEPT !.pc = [S.pc EXCEPT ![t] = "idle"],
                   !.held = [S.held EXCEPT ![t] = NoPage],
                   !.ops = [S.ops EXCEPT ![S.held[t]] = <<>>]]
    ELSE ReleasePage(S, t)

\* _with_page, try/finally: the release runs whether the body returned or raised
Finally(S, t, raised) == ReleasePage(S, t)

\* a start() that does not test _started again once it has the lock
NeverStarted == FALSE

\* the second test of _started, made while holding the lock
StartedUnderLock == started

\* no pure function is being evaluated
NoFn == [at |-> "none"]

PoolInit ==
    /\ pool_size \in 1..DefaultPoolSize
    /\ started = FALSE
    /\ lock = NoTask
    /\ lockq = <<>>
    /\ ready = <<>>
    /\ browser = 0
    /\ launches = 0
    /\ closedEngines = {}
    /\ opened = 0
    /\ queue = <<>>
    /\ getters = <<>>
    /\ arrivals = <<>>
    /\ pc = [t \in Tasks |-> "idle"]
    /\ kind = [t \in Tasks |-> "none"]
    /\ held = [t \in Tasks |-> NoPage]
    /\ ops = [p \in Pages |-> <<>>]
    /\ pending = [t \in Tasks |-> NoResult]
    /\ last = NoOut

Init == PoolInit /\ fn = NoFn

\* ---- ValidatorClient.start / _with_page ----

\* a start() that raises and leaves the lock held
StartFailedKeepsLock(S, t) == [S EXCEPT !.pc = [S.pc EXCEPT ![t] = "idle"]]

\* start() raised in task t, which holds the lock: the lock is released and
\* the call is over
StartFailed(S, t) == Unlock([S EXCEPT !.pc = [S.pc EXCEPT ![t] = "idle"]])

\* a _with_page that goes to Queue.get without calling start()
EnterNoStart(t, k) == Set(GetPage(Here, t, k))

\* _with_page from its entry to its first suspension: start(), then Queue.get.
\* Lock.acquire takes a free lock only if nobody waits for it.
Enter(t, k) ==
    IF started
    THEN Set(GetPage(Here, t, k))
    ELSE IF lock = NoTask /\ lockq = <<>>
    THEN Set([Here EXCEPT !.lock = t, !.pc = [pc EXCEPT ![t] = "launch"]])
    ELSE Set([Here EXCEPT !.lockq = Append(lockq, t),
                          !.pc = [pc EXCEPT ![t] = "lockwait"]])

\* validate(actions, screenshot_path) or get_response_schema() is called
Call(t, k) ==
    /\ UNCHANGED fn
    /\ pc[t] = "idle"
    /\ kind' = [kind EXCEPT ![t] = k]
    /\ Enter(t, k)
    /\ UNCHANGED <<pool_size, started, browser, launches, closedEngines,
                   opened, pending, last>>

\* start(): the woken waiter runs and has the lock; if the pool is started
\* by now it releases the lock and goes on to Queue.get
LockAcquired(t) ==
    /\ UNCHANGED fn
    /\ pc[t] = "lockwoken"
    /\ t = Head(ready)
    /\ LET S == [Here EXCEPT !.lockq = Remove(lockq, t), !.ready = Tail(ready)]
       IN  IF StartedUnderLock
           THEN Set(GetPage(Unlock(S), t, kind[t]))
           ELSE Set([S EXCEPT !.lock = t, !.pc = [pc EXCEPT ![t] = "launch"]])
    /\ UNCHANGED <<pool_size, started, browser, launches, closedEngines,
                   opened, kind, pending, last>>

\* start(): async_playwright().start() and chromium.launch() return or raise
Launch(t, ok) ==
    /\ UNCHANGED fn
    /\ pc[t] = "launch"
    /\ IF ok
       THEN /\ launches < MaxLaunches
            /\ launches' = launches + 1
            /\ browser' = launches + 1
            /\ opened' = 0
            /\ Set([Here EXCEPT !.pc = [pc EXCEPT ![t] = "open"]])
            /\ UNCHANGED <<kind, last>>
       ELSE /\ Set(StartFailed(Here, t))
            /\ kind' = [kind EXCEPT ![t] = "none"]
            /\ last' = Raised(kind[t], "start")
            /\ UNCHANGED <<launches, browser, opened>>
    /\ UNCHANGED <<pool_size, started, closedEngines, pending>>

\* start(): one turn of the loop (new_page, goto, wait_for_function, put);
\* after the last turn _started is set, the lock released and _with_page
\* goes on to Queue.get without suspending
OpenPage(t, ok) ==
    /\ UNCHANGED fn
    /\ pc[t] = "open"
    /\ IF ok
       THEN /\ browser \notin closedEngines
            /\ LET S == PutPage(Here, <<browser, opened + 1>>)
               IN  IF opened + 1 = pool_size
                   THEN /\ started' = TRUE
                        /\ opened' = 0
                        /\ Set(GetPage(Unlock(S), t, kind[t]))
                   ELSE /\ Set(S)
                        /\ opened' = opened + 1
                        /\ UNCHANGED started
            /\ UNCHANGED <<kind, last>>
       ELSE /\ Set(StartFailed(Here, t))
            /\ kind' = [kind EXCEPT ![t] = "none"]
            /\ last' = Raised(kind[t], "start")
            /\ opened' = 0
            /\ UNCHANGED started
    /\ UNCHANGED <<pool_size, browser, launches, closedEngines, pending>>

\* Queue.get: a woken getter runs again and tests the queue anew
Resume(t) ==
    /\ UNCHANGED fn
    /\ pc[t] = "woken"
    /\ t = Head(ready)
    /\ Set(GetPage([Here EXCEPT !.ready = Tail(ready)], t, kind[t]))
    /\ UNCHANGED <<pool_size, started, browser, launches, closedEngines,
                   opened, kind, pending, last>>

\* ---- ValidatorClient.close ----
\* close() is the caller's to call when no call is in flight
Close ==
    /\ UNCHANGED fn
    /\ \A t \in Tasks : pc[t] = "idle"
    /\ closedEngines' = IF browser = 0 THEN closedEngines ELSE closedEngines \cup {browser}
    /\ started' = FALSE
    /\ UNCHANGED <<pool_size, lock, lockq, ready, browser, launches, opened, queue,
                   getters, arrivals, pc, kind, held, ops, pending, last>>

\* ---- ValidatorClient.validate: the round-trip on a leased page ----

\* page.evaluate / page.screenshot can succeed only on a page of a live engine
BridgeAlive(p) == p[1] \notin closedEngines

\* a validate call that post-processes before it validates
NextOpSwapped(op) == IF op = "reset" THEN "post" ELSE "validate"

\* the order of the stages of one validate call
NextOp(op) == IF op = "reset" THEN "validate" ELSE "post"

Issue(S, t, op) == [S EXCEPT !.ops = [S.ops EXCEPT ![S.held[t]] = Append(@, <<t, op>>)]]

\* _with_page: leave the with-block, normally or by an exception of stage st
Leave(t, raised, st, result) ==
    /\ Set(Finally(Here, t, raised))
    /\ kind' = [kind EXCEPT ![t] = "none"]
    /\ pending' = [pending EXCEPT ![t] = NoResult]
    /\ last' = IF raised THEN Raised(kind[t], st) ELSE Returned(kind[t], result)

\* what the bridge can answer to a call of kind k: are errors / action_errors
\* non-empty.  Only a scoring call looks at the answer.
Results(k) ==
    IF k = "score" THEN [errors : BOOLEAN, action_errors : BOOLEAN]
    ELSE {NoResult}

\* the image payload of a bridge result
ImageKinds == {"none", "no_url", "decodable", "undecodable", "raising"}

\* a step 1 that persists the image only to an explicit screenshot_path
ResolveImageExplicitOnly(save_screenshots, has_path, image) ==
    IF image = "none" \/ ~has_path THEN "nothing"
    ELSE CASE image = "decodable" -> "exported"
           [] image = "raising" -> "raise"
           [] OTHER -> "export_error"

\* a step 1 that exports the image whatever the configuration
ResolveImageAlways(save_screenshots, has_path, image) ==
    CASE image = "none" -> "nothing"
      [] image = "decodable" -> "exported"
      [] image = "raising" -> "raise"
      [] OTHER -> "export_error"

\* validate, step 1: persist the embedded image
ResolveImage(save_screenshots, has_path, image) ==
    IF image = "none" THEN "nothing"
    ELSE IF has_path \/ save_screenshots
    THEN CASE image = "no_url" -> "export_error"
           [] image = "decodable" -> "exported"
           [] image = "undecodable" -> "export_error"
           [] OTHER -> "raise"
    ELSE "nothing"

\* a step 2 that does not look at what step 1 resolved
NeedsScreenshotIgnoringSource(save_screenshots, resolved) == save_screenshots

\* a step 2 that does not look at save_screenshots
NeedsScreenshotAlways(save_screenshots, resolved) == resolved # "exported"

\* validate, step 2: is the fallback screenshot taken
NeedsScreenshot(save_screenshots, resolved) ==
    save_screenshots /\ resolved # "exported"

\* the ways post-processing can go, over the configurations and payloads:
\* what step 1 did, and whether step 2 takes the screenshot
PostCases ==
    {<<ResolveImage(s, h, i), NeedsScreenshot(s, ResolveImage(s, h, i))>> :
        s \in BOOLEAN, h \in BOOLEAN, i \in ImageKinds}

\* the reset command returns or raises
ResetDone(t, ok) ==
    /\ UNCHANGED fn
    /\ pc[t] = "reset"
    /\ IF ok
       THEN /\ BridgeAlive(held[t])
            /\ Set(Issue([Here EXCEPT !.pc = [pc EXCEPT ![t] = "validate"]], t,
                         NextOp("reset")))
            /\ UNCHANGED <<kind, pending, last>>
       ELSE Leave(t, TRUE, "transport", NoResult)
    /\ UNCHANGED <<pool_size, started, browser, launches, closedEngines, opened>>

\* the validate command and the post-processing of its result, up to the
\* screenshot: validate raised (ok false), step 1 raised, or the result so far
\* and whether the screenshot is to be taken
ValidateOutcome(k, ok, result, post) ==
    IF ~ok
    THEN [raised |-> TRUE, stage |-> "transport", result |-> NoResult, shot |-> FALSE]
    ELSE IF post[1] = "raise"
    THEN [raised |-> TRUE, stage |-> "post", result |-> NoResult, shot |-> FALSE]
    ELSE [raised |-> FALSE, stage |-> "decide",
          result |-> IF k = "score"
                     THEN [result EXCEPT !.errors = @ \/ post[1] = "export_error"]
                     ELSE NoResult,
          shot |-> post[2]]

\* validator_client.validate post-processes the result; the validate of
\* tldraw.py, which render_and_score calls, returns it as the bridge gave it
PostCasesOf(k) == IF k = "score" THEN {<<"nothing", FALSE>>} ELSE PostCases

ValidateOutcomes(k, alive) ==
    {ValidateOutcome(k, ok, r, post) :
        ok \in (IF alive THEN BOOLEAN ELSE {FALSE}), r \in Results(k),
        post \in PostCasesOf(k)}

\* the validate command returns or raises; the result is post-processed up to
\* the screenshot, if one is taken
ValidateDone(t, o) ==
    /\ UNCHANGED fn
    /\ pc[t] = "validate"
    /\ IF o.raised
       THEN Leave(t, TRUE, o.stage, NoResult)
       ELSE IF o.shot
       THEN /\ Set(Issue([Here EXCEPT !.pc = [pc EXCEPT ![t] = "shot"]], t,
                         NextOp("validate")))
            /\ pending' = [pending EXCEPT ![t] = o.result]
            /\ UNCHANGED <<kind, last>>
       ELSE Leave(t, FALSE, o.stage, o.result)
    /\ UNCHANGED <<pool_size, started, browser, launches, closedEngines, opened>>

\* the fallback screenshot returns or raises; a failure is appended to errors
ShotDone(t, ok) ==
    /\ UNCHANGED fn
    /\ pc[t] = "shot"
    /\ ok => BridgeAlive(held[t])
    /\ Leave(t, FALSE, "decide",
             IF kind[t] = "score" THEN [pending[t] EXCEPT !.errors = @ \/ ~ok]
             ELSE NoResult)
    /\ UNCHANGED <<pool_size, started, browser, launches, closedEngines, opened>>

\* get_response_schema: the getResponseSchema command returns or raises
SchemaDone(t, ok) ==
    /\ UNCHANGED fn
    /\ pc[t] = "schema"
    /\ ok => BridgeAlive(held[t])
    /\ Leave(t, ~ok, "transport", NoResult)
    /\ UNCHANGED <<pool_size, started, browser, launches, closedEngines, opened>>

\* ---- parse_response_json ----

\* a completion text is a sequence of tokens: the braces, the member
\* "actions": [] (a), the member "actions": 1 (b), a key with its colon (k),
\* the literal null (n), and a character of no JSON text (g)
Chars == {"{", "}", "a", "b", "k", "n", "g"}
Texts == UNION {[1..n -> Chars] : n \in 0..MaxTextLen}

\* Python's None; json.loads maps null to it
None == <<"None">>

\* json.loads accepts s: null, or an object with no member, with one of the
\* actions members, or with a key and a value
RECURSIVE IsValue(_)
IsValue(s) ==
    \/ s = <<"n">>
    \/ /\ Len(s) >= 2 /\ s[1] = "{" /\ s[Len(s)] = "}"
       /\ LET inner == SubSeq(s, 2, Len(s) - 1)
          IN  \/ inner \in {<<>>, <<"a">>, <<"b">>}
              \/ Len(inner) >= 2 /\ inner[1] = "k" /\ IsValue(Tail(inner))

\* the value json.loads returns for a text it accepts
RECURSIVE JsonValue(_)
JsonValue(s) ==
    IF s = <<"n">> THEN None
    ELSE LET inner == SubSeq(s, 2, Len(s) - 1)
         IN  CASE inner = <<>> -> <<"dict">>
               [] inner = <<"a">> -> <<"dict", "actions", <<"list">>>>
               [] inner = <<"b">> -> <<"dict", "actions", <<"int">>>>
               [] OTHER -> <<"dict", "key", JsonValue(Tail(inner))>>

\* json.loads: the value, or JSONDecodeError
JsonLoads(s) ==
    IF IsValue(s) THEN [raises |-> FALSE, value |-> JsonValue(s)]
    ELSE [raises |-> TRUE, value |-> None]

\* str.find / str.rfind: 0-based index of the first / last c, -1 if none
Find(text, c) ==
    IF \E i \in DOMAIN text : text[i] = c
    THEN (CHOOSE i \in DOMAIN text :
            text[i] = c /\ \A j \in DOMAIN text : text[j] = c => i <= j) - 1
    ELSE -1

RFind(text, c) ==
    IF \E i \in DOMAIN text : text[i] = c
    THEN (CHOOSE i \in DOMAIN text :
            text[i] = c /\ \A j \in DOMAIN text : text[j] = c => j <= i) - 1
    ELSE -1

\* text[start : end + 1]
Slice(text, start, end) == SubSeq(text, start + 1, end + 1)

parse_response_json(text) ==
    IF ~JsonLoads(text).raises
    THEN [data |-> JsonLoads(text).value, error |-> "None"]
    ELSE LET start == Find(text, "{")
             end == RFind(text, "}")
         IN  IF start = -1 \/ end = -1 \/ end <= start
             THEN [data |-> None, error |-> "Response does not contain JSON"]
             ELSE IF ~JsonLoads(Slice(text, start, end)).raises
             THEN [data |-> JsonLoads(Slice(text, start, end)).value, error |-> "None"]
             ELSE [data |-> None, error |-> "Invalid JSON"]

poolVars == <<pool_size, started, lock, lockq, ready, browser, launches,
              closedEngines, opened, queue, getters, arrivals, pc, kind, held,
              ops, pending, last>>

\* parse_response_json is called on a text, and then once more on the same text
ParseInit == PoolInit /\ fn \in {[at |-> "text", text |-> t] : t \in Texts}

ParseCall ==
    /\ fn.at = "text"
    /\ fn' = [at |-> "parsed", text |-> fn.text, out |-> parse_response_json(fn.text)]
    /\ UNCHANGED poolVars

ParseAgain ==
    /\ fn.at = "parsed"
    /\ fn' = [at |-> "reparsed", text |-> fn.text, out |-> fn.out,
              again |-> parse_response_json(fn.text)]
    /\ UNCHANGED poolVars

ParseNext == ParseCall \/ ParseAgain

ParseSpec == ParseInit /\ [][ParseNext]_vars

\* ---- ValidatorClient.validate: image resolution, on its own ----

\* the result after step 1: the errors appended (by stage), image_source,
\* and the path the image was persisted at
Step1Result(save_screenshots, has_path, image) ==
    LET r == ResolveImage(save_screenshots, has_path, image)
    IN  [errors |-> IF r = "export_error" THEN {"export"} ELSE {},
         image_source |-> IF r = "exported" THEN "tldraw_export" ELSE "none",
         path |-> IF r # "exported" THEN "none"
                  ELSE IF has_path THEN "explicit" ELSE "generated"]

\* a fallback that marks the result whether or not the capture succeeded
FallbackUnguarded(res, has_path, ok) ==
    [res EXCEPT !.image_source = "page_screenshot",
                !.path = IF has_path THEN "explicit" ELSE "generated"]

\* step 2: page.screenshot to the target inside try/except
Fallback(res, has_path, ok) ==
    IF ok
    THEN [res EXCEPT !.image_source = "page_screenshot",
                     !.path = IF has_path THEN "explicit" ELSE "generated"]
    ELSE [res EXCEPT !.errors = @ \cup {"fallback"}]

ImageInit ==
    /\ PoolInit
    /\ fn \in {[at |-> "image", save_screenshots |-> s, has_path |-> h, image |-> i] :
                  s \in BOOLEAN, h \in BOOLEAN, i \in ImageKinds}

\* step 1 ends: it raised, or the result goes on to step 2
ImageResolve ==
    /\ fn.at = "image"
    /\ fn' = IF ResolveImage(fn.save_screenshots, fn.has_path, fn.image) = "raise"
             THEN [fn EXCEPT !.at = "raised"]
             ELSE [at |-> "resolved", save_screenshots |-> fn.save_screenshots,
                   has_path |-> fn.has_path, image |-> fn.image,
                   res |-> Step1Result(fn.save_screenshots, fn.has_path, fn.image),
                   shot |-> "none"]
    /\ UNCHANGED poolVars

\* step 2 takes the screenshot, which succeeds or fails, and validate returns
ImageFallback(ok) ==
    /\ fn.at = "resolved"
    /\ NeedsScreenshot(fn.save_screenshots,
                       ResolveImage(fn.save_screenshots, fn.has_path, fn.image))
    /\ fn' = [fn EXCEPT !.at = "returned",
                        !.res = Fallback(fn.res, fn.has_path, ok),
                        !.shot = IF ok THEN "ok" ELSE "failed"]
    /\ UNCHANGED poolVars

\* step 2 takes no screenshot and validate returns
ImageReturn ==
    /\ fn.at = "resolved"
    /\ ~NeedsScreenshot(fn.save_screenshots,
                        ResolveImage(fn.save_screenshots, fn.has_path, fn.image))
    /\ fn' = [fn EXCEPT !.at = "returned"]
    /\ UNCHANGED poolVars

ImageNext ==
    \/ ImageResolve
    \/ \E ok \in BOOLEAN : ImageFallback(ok)
    \/ ImageReturn

ImageSpec == ImageInit /\ [][ImageNext]_vars

\* ---- ValidatorClient: the run's artifacts (run tag, directories, error log) ----

\* A client r: its two switches, _run_tag, _run_dir and _error_log_path (0
\* for None, else the number of the tag they were built from), the tags
\* generated so far (each call of utcnow/uuid4 gives a fresh one), _started,
\* whether close() was ever called, and the lines of errors.jsonl.
NewClient(save_screenshots, log_errors) ==
    [save_screenshots |-> save_screenshots, log_errors |-> log_errors,
     run_tag |-> 0, run_dir |-> 0, error_log_path |-> 0, tags |-> 0,
     started |-> FALSE, closed |-> FALSE, lines |-> 0]

\* a run tag computed anew on every request
ensure_run_tag_fresh(r) == [r EXCEPT !.run_tag = r.tags + 1, !.tags = r.tags + 1]

\* _ensure_run_tag: computed on first use, kept afterwards
ensure_run_tag(r) ==
    IF r.run_tag = 0
    THEN [r EXCEPT !.run_tag = r.tags + 1, !.tags = r.tags + 1]
    ELSE r

\* _ensure_error_log_path; mkdir succeeds or raises
ensure_error_log_path(r, mkdir_ok) ==
    IF ~r.log_errors \/ r.error_log_path # 0
    THEN [r |-> r, raised |-> FALSE]
    ELSE IF ~mkdir_ok
    THEN [r |-> ensure_run_tag(r), raised |-> TRUE]
    ELSE [r |-> [ensure_run_tag(r) EXCEPT !.error_log_path = ensure_run_tag(r).run_tag],
          raised |-> FALSE]

\* log_error_payload: returns the path ("path"), None ("None"), or raises
log_error_payload(r, mkdir_ok, write_ok) ==
    IF ~r.log_errors
    THEN [r |-> r, raised |-> FALSE, ret |-> "None"]
    ELSE LET e == ensure_error_log_path(r, mkdir_ok)
         IN  IF e.raised THEN [r |-> e.r, raised |-> TRUE, ret |-> "None"]
             ELSE IF e.r.error_log_path = 0
             THEN [r |-> e.r, raised |-> FALSE, ret |-> "None"]
             ELSE IF write_ok
             THEN [r |-> [e.r EXCEPT !.lines = @ + 1], raised |-> FALSE, ret |-> "path"]
             ELSE [r |-> e.r, raised |-> FALSE, ret |-> "None"]

\* where start() can fail: creating the run directory, creating the
\* error-log directory, or launching the engine and opening the pages
FailPoints == {"none", "run_dir", "error_dir", "engine"}

\* start(): on an unstarted client, the run tag and the directories are
\* set up under `if self.save_screenshots or self.log_errors`, then the
\* engine is started; _run_dir is assigned before its mkdir, _error_log_path
\* after its mkdir
start(r, fail_at) ==
    IF r.started THEN [r |-> r, raised |-> FALSE]
    ELSE LET r1 == IF r.save_screenshots \/ r.log_errors THEN ensure_run_tag(r) ELSE r
             mk_run == r1.save_screenshots /\ r1.run_dir = 0
             r2 == IF mk_run THEN [r1 EXCEPT !.run_dir = r1.run_tag] ELSE r1
             mk_err == r2.log_errors /\ r2.error_log_path = 0
             r3 == IF mk_err THEN [r2 EXCEPT !.error_log_path = r2.run_tag] ELSE r2
         IN  IF mk_run /\ fail_at = "run_dir" THEN [r |-> r2, raised |-> TRUE]
             ELSE IF mk_err /\ fail_at = "error_dir" THEN [r |-> r2, raised |-> TRUE]
             ELSE IF fail_at = "engine" THEN [r |-> r3, raised |-> TRUE]
             ELSE [r |-> [r3 EXCEPT !.started = TRUE], raised |-> FALSE]

\* close(): only _started is cleared
close(r) == [r EXCEPT !.started = FALSE, !.closed = TRUE]

\* generated image paths placed in screenshot_dir itself
build_screenshot_path_bare(r) == <<"screenshot_dir">>

\* the directory a generated image path lies in: screenshot_dir itself, or
\* screenshot_dir / run tag
build_screenshot_path(r) ==
    IF r.run_dir = 0 THEN <<"screenshot_dir">> ELSE <<"screenshot_dir", r.run_dir>>

\* does validate generate an image path: for the export of step 1 under
\* save_screenshots, or for the screenshot of step 2, when no
\* screenshot_path was given
GeneratesPath(r, has_path, image) ==
    /\ ~has_path
    /\ \/ ResolveImage(r.save_screenshots, has_path, image) = "exported"
       \/ NeedsScreenshot(r.save_screenshots,
                          ResolveImage(r.save_screenshots, has_path, image))

\* the outcome of the last operation on the client
NoRunOut ==
    [op |-> "none", raised |-> FALSE, ret |-> "None", generated |-> <<>>,
     image_dir |-> 0, error_log_path |-> 0, has_path |-> FALSE,
     res |-> [errors |-> {}, image_source |-> "none", path |-> "none"]]

\* validate, the two image steps: what they append to errors, image_source,
\* and the path written into the image payload
ImageResult(r, has_path, image, shot_ok) ==
    IF NeedsScreenshot(r.save_screenshots, ResolveImage(r.save_screenshots, has_path, image))
    THEN Fallback(Step1Result(r.save_screenshots, has_path, image), has_path, shot_ok)
    ELSE Step1Result(r.save_screenshots, has_path, image)

\* annotations made only when the screenshot run directory exists
AnnotatedIfRunDir(r, out) ==
    IF r.run_dir = 0 THEN out
    ELSE [out EXCEPT !.image_dir = r.run_dir, !.error_log_path = r.error_log_path]

\* validate, last lines: the result is annotated with what the client has
Annotated(r, out) ==
    [out EXCEPT !.image_dir = r.run_dir, !.error_log_path = r.error_log_path]

\* validate(): start() through _with_page, the image steps, the annotations
validate(r, fail_at, has_path, image, shot_ok) ==
    LET s == start(r, fail_at)
        o == [NoRunOut EXCEPT !.op = "validate", !.has_path = has_path]
    IN  IF s.raised \/ ResolveImage(r.save_screenshots, has_path, image) = "raise"
        THEN [r |-> s.r, out |-> [o EXCEPT !.raised = TRUE]]
        ELSE [r |-> s.r,
              out |-> Annotated(s.r,
                        [o EXCEPT !.ret = "result",
                                  !.res = ImageResult(s.r, has_path, image, shot_ok),
                                  !.generated = IF GeneratesPath(s.r, has_path, image)
                                                THEN build_screenshot_path(s.r)
                                                ELSE <<>>])]

RunInit ==
    /\ PoolInit
    /\ fn \in {[at |-> "run", r |-> NewClient(s, l), out |-> NoRunOut] :
                  s \in BOOLEAN, l \in BOOLEAN}

RunStart(fail_at) ==
    /\ fn.at = "run"
    /\ fn' = [fn EXCEPT !.r = start(fn.r, fail_at).r,
                        !.out = [NoRunOut EXCEPT !.op = "start",
                                                 !.raised = start(fn.r, fail_at).raised]]
    /\ UNCHANGED poolVars

RunClose ==
    /\ fn.at = "run"
    /\ fn' = [fn EXCEPT !.r = close(fn.r),
                        !.out = [NoRunOut EXCEPT !.op = "close"]]
    /\ UNCHANGED poolVars

RunLog(mkdir_ok, write_ok) ==
    /\ fn.at = "run"
    /\ log_error_payload(fn.r, mkdir_ok, write_ok).r.lines <= MaxLogLines
    /\ fn' = [fn EXCEPT !.r = log_error_payload(fn.r, mkdir_ok, write_ok).r,
                        !.out = [NoRunOut EXCEPT
                                    !.op = "log",
                                    !.raised = log_error_payload(fn.r, mkdir_ok, write_ok).raised,
                                    !.ret = log_error_payload(fn.r, mkdir_ok, write_ok).ret]]
    /\ UNCHANGED poolVars

RunValidate(fail_at, has_path, image, shot_ok) ==
    /\ fn.at = "run"
    /\ fn' = [fn EXCEPT !.r = validate(fn.r, fail_at, has_path, image, shot_ok).r,
                        !.out = validate(fn.r, fail_at, has_path, image, shot_ok).out]
    /\ UNCHANGED poolVars

RunNext ==
    \/ \E f \in FailPoints : RunStart(f)
    \/ RunClose
    \/ \E m \in BOOLEAN, w \in BOOLEAN : RunLog(m, w)
    \/ \E f \in FailPoints, h \in BOOLEAN, i \in ImageKinds, ok \in BOOLEAN :
            RunValidate(f, h, i, ok)

RunSpec == RunInit /\ [][RunNext]_vars

\* ---- run_blocking / safe_fetch_system_prompt ----

\* what the wrapped function does when it is run: it returns a value, or
\* raises an Exception, or raises a BaseException that is no Exception
Outcomes ==
    {[kind |-> "return", what |-> v, cause |-> "none"] : v \in {"a", "b"}}
        \cup {[kind |-> "raise", what |-> e, cause |-> "none"] :
                e \in {"TimeoutError", "ValueError", "KeyboardInterrupt"}}

Blocking == {"run_blocking", "safe_fetch_system_prompt"}

\* `except Exception as exc: raise RuntimeError(...) from exc`
WrapException(o) ==
    IF o.kind = "raise" /\ o.what # "KeyboardInterrupt"
    THEN [kind |-> "raise", what |-> "RuntimeError", cause |-> o.what]
    ELSE o

\* the branch taken when no loop is running: the function is called directly
DirectBranch(which, o) ==
    IF which = "run_blocking" THEN o ELSE WrapException(o)

\* an executor branch that lets the function's exception through as it is
WorkerBranchUnwrapped(which, o) == o

\* the branch taken inside a running loop: future.result() returns the
\* value or raises the exception the worker stored
WorkerBranch(which, o) ==
    IF which = "run_blocking" THEN o ELSE WrapException(o)

NoOutcome == [kind |-> "none", what |-> "none", cause |-> "none"]

BlockInit ==
    /\ PoolInit
    /\ fn \in {[at |-> "call", which |-> w, loop_running |-> l, outcome |-> o,
                 runs |-> 0, workers |-> 0, out |-> NoOutcome] :
                  w \in Blocking, l \in BOOLEAN, o \in Outcomes}

\* the call is made: asyncio.get_running_loop() raises RuntimeError and the
\* function runs in the caller, or an executor with one worker is created
\* and the function submitted to it
BlockCall ==
    /\ fn.at = "call"
    /\ fn' = IF ~fn.loop_running
             THEN [fn EXCEPT !.at = "returned", !.runs = @ + 1,
                             !.out = DirectBranch(fn.which, fn.outcome)]
             ELSE [fn EXCEPT !.at = "submitted", !.workers = @ + 1]
    /\ UNCHANGED poolVars

\* the worker thread runs the function and stores what it did in the future
WorkerRun ==
    /\ fn.at = "submitted"
    /\ fn' = [fn EXCEPT !.at = "finished", !.runs = @ + 1]
    /\ UNCHANGED poolVars

\* future.result() stops blocking, the with-block shuts the executor down,
\* and the call ends
BlockResult ==
    /\ fn.at = "finished"
    /\ fn' = [fn EXCEPT !.at = "returned", !.out = WorkerBranch(fn.which, fn.outcome)]
    /\ UNCHANGED poolVars

BlockNext == BlockCall \/ WorkerRun \/ BlockResult

BlockSpec == BlockInit /\ [][BlockNext]_vars

\* ---- render_and_score ----
CompletionKinds ==
    {"empty", "unparseable", "not_dict", "no_actions", "actions_not_list", "actions"}

\* the completion argument: an empty list, or messages the last of which
\* has the text as content
NoCompletion == [empty |-> TRUE, text |-> <<>>]
Completions == {NoCompletion} \cup {[empty |-> FALSE, text |-> t] : t \in Texts}

\* what render_and_score finds in a completion, down to the actions list
CompletionKind(c) ==
    IF c.empty THEN "empty"
    ELSE LET r == parse_response_json(c.text)
         IN  IF r.error # "None" THEN "unparseable"
             ELSE IF r.data[1] # "dict" THEN "not_dict"
             ELSE IF Len(r.data) < 2 \/ r.data[2] # "actions" THEN "no_actions"
             ELSE IF r.data[3] # <<"list">> THEN "actions_not_list"
             ELSE "actions"

\* a render_and_score that does not test the shape of the parsed value
EarlyStageNoShape(completion, has_validator) ==
    CASE completion = "empty" -> "empty"
      [] completion = "unparseable" -> "parse"
      [] ~has_validator -> "novalidator"
      [] OTHER -> "validate"

\* the stage at which render_and_score stops before validating, or "validate"
EarlyStage(completion, has_validator) ==
    CASE completion = "empty" -> "empty"
      [] completion = "unparseable" -> "parse"
      [] completion \in {"not_dict", "no_actions", "actions_not_list"} -> "shape"
      [] ~has_validator -> "novalidator"
      [] OTHER -> "validate"

EarlyStages == {EarlyStage(CompletionKind(c), v) : c \in Completions, v \in BOOLEAN}

\* render_and_score is called with a completion that takes it to stage st
ScoreCall(t, st) ==
    /\ UNCHANGED fn
    /\ pc[t] = "idle"
    /\ IF st = "validate"
       THEN /\ kind' = [kind EXCEPT ![t] = "score"]
            /\ Enter(t, "score")
            /\ UNCHANGED last
       ELSE /\ last' = EarlyReturn(st)
            /\ UNCHANGED <<lock, lockq, ready, queue, getters, arrivals, pc, kind,
                           held, ops>>
    /\ UNCHANGED <<pool_size, started, browser, launches, closedEngines,
                   opened, pending>>

\* the steps a call goes through from its entry to its lease
Lease(t) ==
    \/ LockAcquired(t)
    \/ \E ok \in BOOLEAN : Launch(t, ok)
    \/ \E ok \in BOOLEAN : OpenPage(t, ok)
    \/ Resume(t)

\* the steps of a round-trip on the leased page
RoundTrip(t) ==
    \/ \E ok \in BOOLEAN : ResetDone(t, ok)
    \/ \E o \in ValidateOutcomes(kind[t], BridgeAlive(held[t])) : ValidateDone(t, o)

\* validator_client.ValidatorClient under concurrent calls of validate
Next ==
    \/ \E t \in Callers : Call(t, "validate")
    \/ \E t \in Callers : Lease(t)
    \/ \E t \in Callers : RoundTrip(t)
    \/ \E t \in Callers, ok \in BOOLEAN : ShotDone(t, ok)
    \/ Close

Spec == Init /\ [][Next]_vars

\* tldraw.py: load_environment asks the fresh validator for the response
\* schema, then render_and_score is called concurrently over that validator
ScoreNext ==
    \/ \E t \in Scorers : launches = 0 /\ (\A u \in Tasks : pc[u] = "idle") /\ Call(t, "schema")
    \/ \E t \in Scorers, ok \in BOOLEAN : SchemaDone(t, ok)
    \/ \E t \in Scorers, st \in EarlyStages : ScoreCall(t, st)
    \/ \E t \in Scorers : Lease(t)
    \/ \E t \in Scorers : RoundTrip(t)
    \/ Close

ScoreSpec == Init /\ [][ScoreNext]_vars

\* validator_client.ValidatorClient on a pool whose start() succeeds and
\* that is not closed.  The loop runs every task it has woken, and every
\* bridge call returns or fails within timeout_ms: each step of a call that
\* can be taken is taken in the end.
Step(t) ==
    \/ LockAcquired(t)
    \/ Launch(t, TRUE)
    \/ OpenPage(t, TRUE)
    \/ Resume(t)
    \/ RoundTrip(t)
    \/ \E ok \in BOOLEAN : ShotDone(t, ok)

LiveNext ==
    \/ \E t \in LiveCallers : Call(t, "validate")
    \/ \E t \in LiveCallers : Step(t)

LiveSpec == Init /\ [][LiveNext]_vars /\ \A t \in LiveCallers : WF_vars(Step(t))

\* validator_client.ValidatorClient on a pool whose start() can raise and
\* that is not closed.  The loop runs every task it has woken, and every
\* launch, page load and bridge call returns or fails within timeout_ms.
AnyStep(t) ==
    \/ Lease(t)
    \/ RoundTrip(t)
    \/ \E ok \in BOOLEAN : ShotDone(t, ok)

RetryNext ==
    \/ \E t \in LiveCallers : Call(t, "validate")
    \/ \E t \in LiveCallers : AnyStep(t)

RetrySpec == Init /\ [][RetryNext]_vars /\ \A t \in LiveCallers : WF_vars(AnyStep(t))

\* ---- a call is cancelled (Task.cancel) ----

\* Queue._wakeup_next: wake the oldest getter, if there is one
WakeNext(S) ==
    IF S.getters = <<>> THEN S
    ELSE [S EXCEPT !.getters = Remove(S.getters, NextGetter(S.getters)),
                   !.pc = [S.pc EXCEPT ![NextGetter(S.getters)] = "woken"],
                   !.ready = Append(S.ready, NextGetter(S.getters))]

\* Task.cancel() on task t.  A task suspended in Queue.get or in a bridge
\* call has its future cancelled and is scheduled to run (a cancelled getter
\* is skipped by every later wake-up); a getter that was already woken keeps
\* its place in the ready queue and is marked to be cancelled when it runs.
cancel(S, t) ==
    CASE S.pc[t] = "wait" ->
            [S EXCEPT !.getters = Remove(S.getters, t),
                      !.arrivals = Remove(S.arrivals, t),
                      !.pc = [S.pc EXCEPT ![t] = "cancelled"],
                      !.ready = Append(S.ready, t)]
      [] S.pc[t] = "woken" ->
            [S EXCEPT !.arrivals = Remove(S.arrivals, t),
                      !.pc = [S.pc EXCEPT ![t] = "must_cancel"]]
      [] OTHER ->
            [S EXCEPT !.pc = [S.pc EXCEPT ![t] = "cancelled"],
                      !.ready = Append(S.ready, t)]

\* a woken getter that is cancelled and leaves without passing its wake-up on
CancelledGetterNoWake(S, t) == [S EXCEPT !.pc = [S.pc EXCEPT ![t] = "idle"]]

\* Queue.get, except branch, in a getter that was woken and then cancelled:
\* it takes nothing and, if the queue is not empty, wakes the next getter
CancelledGetter(S, t) ==
    IF S.queue # <<>>
    THEN WakeNext([S EXCEPT !.pc = [S.pc EXCEPT ![t] = "idle"]])
    ELSE [S EXCEPT !.pc = [S.pc EXCEPT ![t] = "idle"]]

\* the caller abandons the call of task t, which is at the lease point or
\* holds a page
Cancel(t) ==
    /\ UNCHANGED fn
    /\ pc[t] \in Holding \cup {"wait", "woken"}
    /\ Set(cancel(Here, t))
    /\ UNCHANGED <<pool_size, started, browser, launches, closedEngines, opened,
                   kind, pending, last>>

\* the cancelled task runs: CancelledError is raised where it was suspended;
\* inside _with_page the finally clause puts the page back
Cancelled(t) ==
    /\ UNCHANGED fn
    /\ pc[t] \in {"cancelled", "must_cancel"}
    /\ t = Head(ready)
    /\ LET S == [Here EXCEPT !.ready = Tail(ready)]
       IN  IF pc[t] = "must_cancel" THEN Set(CancelledGetter(S, t))
           ELSE IF held[t] # NoPage THEN Set(Finally(S, t, TRUE))
           ELSE Set([S EXCEPT !.pc = [pc EXCEPT ![t] = "idle"]])
    /\ kind' = [kind EXCEPT ![t] = "none"]
    /\ pending' = [pending EXCEPT ![t] = NoResult]
    /\ last' = Raised(kind[t], "cancelled")
    /\ UNCHANGED <<pool_size, started, browser, launches, closedEngines, opened>>

\* validator_client.ValidatorClient on a pool whose start() succeeds and
\* that is not closed, with callers that abandon their calls
CancelNext ==
    \/ \E t \in Callers : Call(t, "validate")
    \/ \E t \in Callers : Step(t)
    \/ \E t \in Callers : Cancel(t)
    \/ \E t \in Callers : Cancelled(t)

CancelSpec == Init /\ [][CancelNext]_vars

\* ---- bootstrap_env.ensure_validator_server ----

\* The validator URLs are two on this host (different ports), "local_a"
\* and "local_b", and one on another host, "remote".

\* _is_localhost(urlparse(url).hostname)
is_localhost(url) == url # "remote"

\* The module's state: the processes it has spawned with Popen, in order,
\* each with the URL it was started for and whether it still runs.
\* _validator_process is the last of them, _validator_process_url its URL.
ManagedRuns(procs) == procs # <<>> /\ procs[Len(procs)].alive

\* a _terminate_validator_process that signals nothing
terminate_nothing(procs) == procs

\* _terminate_validator_process: a process still running gets terminate()
\* and, if it has not exited after 5 s, kill()
terminate_validator_process(procs) ==
    IF procs = <<>> THEN procs
    ELSE [procs EXCEPT ![Len(procs)].alive = FALSE]

ServerInit ==
    /\ PoolInit
    /\ fn = [at |-> "idle", procs |-> <<>>,
             call |-> [url |-> "None", live |-> FALSE], out |-> "none"]

\* ensure_validator_server(url) as far as the decision to spawn: the URL
\* answers or not, the host is local or not, the managed process runs or not
EnsureCall(url, live) ==
    /\ fn.at = "idle"
    /\ Len(fn.procs) < MaxSpawns
    /\ fn' = IF live THEN [fn EXCEPT !.out = "returned", !.call = [url |-> url, live |-> live]]
             ELSE IF ~is_localhost(url)
             THEN [fn EXCEPT !.out = "returned", !.call = [url |-> url, live |-> live]]
             ELSE IF ManagedRuns(fn.procs) /\ fn.procs[Len(fn.procs)].url = url
             THEN [fn EXCEPT !.out = "returned", !.call = [url |-> url, live |-> live]]
             ELSE IF ManagedRuns(fn.procs)
             THEN [fn EXCEPT !.at = "terminating", !.out = "none",
                             !.call = [url |-> url, live |-> live]]
             ELSE [fn EXCEPT !.at = "spawning", !.out = "none",
                             !.call = [url |-> url, live |-> live]]
    /\ UNCHANGED poolVars

\* the managed process of another URL is terminated
Terminate ==
    /\ fn.at = "terminating"
    /\ fn' = [fn EXCEPT !.at = "spawning", !.procs = terminate_validator_process(fn.procs)]
    /\ UNCHANGED poolVars

\* the log is opened and the server spawned (Popen), or one of them raises
SpawnServer(ok) ==
    /\ fn.at = "spawning"
    /\ fn' = IF ok
             THEN [fn EXCEPT !.at = "waiting",
                             !.procs = Append(fn.procs, [url |-> fn.call.url, alive |-> TRUE])]
             ELSE [fn EXCEPT !.at = "idle", !.out = "raised"]
    /\ UNCHANGED poolVars

\* the wait loop ends: the URL answers, or the process has exited, or the
\* deadline passes with the process still running
WaitReady(ready_in_time) ==
    /\ fn.at = "waiting"
    /\ fn' = IF ~ManagedRuns(fn.procs) THEN [fn EXCEPT !.at = "idle", !.out = "raised"]
             ELSE IF ready_in_time THEN [fn EXCEPT !.at = "idle", !.out = "returned"]
             ELSE [fn EXCEPT !.at = "idle", !.out = "raised"]
    /\ UNCHANGED poolVars

\* a spawned process exits by itself
ServerExits(i) ==
    /\ fn.at \in {"idle", "waiting"}
    /\ i \in DOMAIN fn.procs
    /\ fn.procs[i].alive
    /\ fn' = [fn EXCEPT !.procs = [fn.procs EXCEPT ![i].alive = FALSE]]
    /\ UNCHANGED poolVars

ServerNext ==
    \/ \E u \in {"local_a", "local_b", "remote"}, live \in BOOLEAN : EnsureCall(u, live)
    \/ Terminate
    \/ \E ok \in BOOLEAN : SpawnServer(ok)
    \/ \E r \in BOOLEAN : WaitReady(r)
    \/ \E i \in 1..MaxSpawns : ServerExits(i)

ServerSpec == ServerInit /\ [][ServerNext]_vars

\* ---- dedupe_prompts.get_openai_embeddings ----

\* the prompts are told apart by their position in the input
Prompts(n) == [i \in 1..n |-> i]

\* the unit vector the embeddings endpoint and _l2_normalize give a prompt
Embedding(p) == <<"vec", p>>

\* len(batches): range(0, len(prompts), batch_size)
NumBatches(n, bs) == (n + bs - 1) \div bs

\* prompts[i : i + batch_size] of the batch with index b (from 0)
BatchOf(prompts, bs, b) ==
    SubSeq(prompts, b * bs + 1,
           IF (b + 1) * bs < Len(prompts) THEN (b + 1) * bs ELSE Len(prompts))

\* _embed_batch's result: one vector per prompt of the batch, in its order
BatchVectors(batch) == [i \in 1..Len(batch) |-> Embedding(batch[i])]

\* a store that fills the slots in the order the batches complete
StoreInCompletionOrder(ordered, b, vecs) ==
    LET free == {i \in 1..Len(ordered) : ordered[i].none}
        first == CHOOSE i \in free : \A j \in free : i <= j
    IN  [ordered EXCEPT ![first] = [none |-> FALSE, vecs |-> vecs]]

\* ordered[batch_index] = batch_vectors
Store(ordered, b, vecs) == [ordered EXCEPT ![b + 1] = [none |-> FALSE, vecs |-> vecs]]

RECURSIVE Extend(_)
\* vectors.extend(batch_vectors) over ordered
Extend(ordered) ==
    IF ordered = <<>> THEN <<>> ELSE Head(ordered).vecs \o Extend(Tail(ordered))

\* the tasks holding the semaphore, their request in flight
InFlight(f) == {b \in 1..Len(f.status) : f.status[b] = "inflight"}

\* get_openai_embeddings up to the first await: the batches are cut, one
\* task is created for each, every slot of `ordered` holds None
EmbedInit ==
    /\ PoolInit
    /\ \E n \in 0..MaxPrompts, bs \in 1..2, c \in 1..2 :
            fn = [at |-> "running", n |-> n, bs |-> bs, c |-> c,
                  status |-> [b \in 1..NumBatches(n, bs) |-> "waiting"],
                  completed |-> <<>>, taken |-> <<>>,
                  ordered |-> [b \in 1..NumBatches(n, bs) |->
                                  [none |-> TRUE, vecs |-> <<>>]],
                  vectors |-> <<>>]

\* async with semaphore: the tasks take it in the order they were created
Acquire(b) ==
    /\ fn.at = "running"
    /\ b \in 1..Len(fn.status)
    /\ fn.status[b] = "waiting"
    /\ \A a \in 1..(b - 1) : fn.status[a] # "waiting"
    /\ Cardinality(InFlight(fn)) < fn.c
    /\ fn' = [fn EXCEPT !.status[b] = "inflight"]
    /\ UNCHANGED poolVars

\* the request of a batch ends, with a response or with an exception; the
\* semaphore is released and the task is done
Complete(b, ok) ==
    /\ fn.at = "running"
    /\ b \in InFlight(fn)
    /\ fn' = [fn EXCEPT !.status[b] = IF ok THEN "done" ELSE "failed",
                        !.completed = Append(@, b)]
    /\ UNCHANGED poolVars

\* the as_completed loop takes the next finished task; an exception ends
\* the loop, and the finally block cancels the tasks that are not done
Collect ==
    /\ fn.at = "running"
    /\ fn.completed # <<>>
    /\ LET b == Head(fn.completed)
       IN  fn' = IF fn.status[b] = "done"
                 THEN [fn EXCEPT !.completed = Tail(@), !.taken = Append(@, b),
                        !.ordered = Store(@, b - 1,
                            BatchVectors(BatchOf(Prompts(fn.n), fn.bs, b - 1)))]
                 ELSE [fn EXCEPT !.at = "raised", !.completed = Tail(@),
                        !.status = [a \in 1..Len(fn.status) |->
                            IF fn.status[a] \in {"waiting", "inflight"}
                            THEN "cancelled" ELSE fn.status[a]]]
    /\ UNCHANGED poolVars

\* every task has been taken: the vectors are put together and returned
Return ==
    /\ fn.at = "running"
    /\ Len(fn.taken) = Len(fn.status)
    /\ fn' = IF \E b \in 1..Len(fn.ordered) : fn.ordered[b].none
             THEN [fn EXCEPT !.at = "raised"]
             ELSE [fn EXCEPT !.at = "returned", !.vectors = Extend(fn.ordered)]
    /\ UNCHANGED poolVars

EmbedNext ==
    \/ \E b \in 1..MaxPrompts : Acquire(b)
    \/ \E b \in 1..MaxPrompts, ok \in BOOLEAN : Complete(b, ok)
    \/ Collect
    \/ Return

EmbedSpec == EmbedInit /\ [][EmbedNext]_vars

\* ---- dedupe_prompts.normalize_prompt, find_exact_match_groups ----

\* A prompt is a sequence of characters: "a" a lower-case letter, "A" the
\* same letter in upper case, " " whitespace, "." punctuation.
PromptTexts == UNION {[1..n -> {"a", "A", " ", "."}] : n \in 0..MaxPromptLen}

RECURSIVE strip(_)
\* str.strip(): whitespace removed at both ends
strip(s) ==
    IF s = <<>> THEN s
    ELSE IF Head(s) = " " THEN strip(Tail(s))
    ELSE IF s[Len(s)] = " " THEN strip(SubSeq(s, 1, Len(s) - 1))
    ELSE s

RECURSIVE collapse_whitespace(_)
\* re.sub(r"\s+", " ", text): every run of whitespace becomes one space
collapse_whitespace(s) ==
    IF Len(s) < 2 THEN s
    ELSE IF s[1] = " " /\ s[2] = " " THEN collapse_whitespace(Tail(s))
    ELSE <<Head(s)>> \o collapse_whitespace(Tail(s))

\* re.sub(r"[^\w\s]", "", text): what is neither word character nor
\* whitespace is deleted
remove_punctuation(s) == SelectSeq(s, LAMBDA c : c # ".")

\* normalize_prompt: lower().strip(), then the two substitutions in order
normalize_prompt(text) ==
    remove_punctuation(collapse_whitespace(strip(
        [i \in 1..Len(text) |-> IF text[i] = "A" THEN "a" ELSE text[i]])))

\* find_exact_match_groups: the indices of the prompts by key, the groups
\* of one prompt left out
find_exact_match_groups(prompts, normalized) ==
    LET key(i) == IF normalized THEN normalize_prompt(prompts[i]) ELSE prompts[i]
        groups == {[key |-> key(i), idx |-> {j \in 1..Len(prompts) : key(j) = key(i)}] :
                        i \in 1..Len(prompts)}
    IN  {g \in groups : Cardinality(g.idx) > 1}

NormInit ==
    /\ PoolInit
    /\ \E p \in PromptTexts, q \in PromptTexts, normalized \in BOOLEAN :
            fn = [at |-> "input", prompts |-> <<p, q>>, normalized |-> normalized,
                  groups |-> {}]

FindGroups ==
    /\ fn.at = "input"
    /\ fn' = [fn EXCEPT !.at = "grouped",
                        !.groups = find_exact_match_groups(fn.prompts, fn.normalized)]
    /\ UNCHANGED poolVars

NormNext == FindGroups

NormSpec == NormInit /\ [][NormNext]_vars

\* ---- render_and_score: which validator it calls ----

\* the validator argument and state.get("validator"): None, or one of two
\* validator objects
Validators == {"None", "A", "B"}

\* a render_and_score that prefers the validator of the state mapping
UsedValidatorStoredFirst(explicit, stored) ==
    IF stored = "None" THEN explicit ELSE stored

\* `if validator is None: validator = state.get("validator")`
UsedValidator(explicit, stored) ==
    IF explicit = "None" THEN stored ELSE explicit

\* one call of render_and_score as far as the validate call: the stage it
\* reaches, the validators whose validate it calls, and what it has returned
\* and stored in state["render"] if it stopped early
render_and_score(completion, explicit, stored) ==
    LET v == UsedValidator(explicit, stored)
        st == EarlyStage(completion, v # "None")
    IN  IF st = "validate"
        THEN [stage |-> st, calls |-> {v}, score |-> "none", render |-> "none"]
        ELSE [stage |-> st, calls |-> {}, score |-> EarlyReturn(st).score,
              render |-> EarlyReturn(st).render]

PickInit ==
    /\ PoolInit
    /\ fn \in {[at |-> "picking", completion |-> c, explicit |-> e, stored |-> v] :
                  c \in CompletionKinds, e \in Validators, v \in Validators}

PickCall ==
    /\ fn.at = "picking"
    /\ fn' = [at |-> "picked", completion |-> fn.completion, explicit |-> fn.explicit,
              stored |-> fn.stored,
              out |-> render_and_score(fn.completion, fn.explicit, fn.stored)]
    /\ UNCHANGED poolVars

PickNext == PickCall

PickSpec == PickInit /\ [][PickNext]_vars

\* ---- properties ----

PagesHeld == {held[t] : t \in Holders}
Existing == Range(queue) \cup PagesHeld
Initializing == {t \in Tasks : pc[t] \in {"launch", "open"}}

\* C1: on a pool that was never closed, the callers holding a Session are
\* never more than pool_size
C1_AtMostPoolSizeHolders ==
    closedEngines = {} => Cardinality(Holders) <= pool_size

\* C2: whenever a caller leaves its round-trip, by returning or by raising,
\* its Session is appended to the tail of the idle queue in that step; no
\* Session that exists is ever lost; and on a pool initialized once, when no
\* caller holds a Session the idle queue holds pool_size Sessions
C2_ReleasedOnEveryExit ==
    /\ [][/\ \A t \in Tasks :
                (pc[t] \in Holding /\ pc'[t] \notin Holding)
                    => (queue' = Append(queue, held[t]) /\ held'[t] = NoPage)
          /\ Existing \subseteq Range(queue') \cup {held'[t] : t \in Tasks}]_vars
    /\ []((started /\ launches = 1 /\ Holders = {}) => Len(queue) = pool_size)

\* C2 witness: a round-trip has just failed on a pool of two initialized
\* once, and both Sessions are idle again
C2_Witness ==
    /\ last.status = "raised" /\ last.stage \in {"transport", "post"}
    /\ started /\ launches = 1 /\ pool_size = 2
    /\ Holders = {} /\ Len(queue) = 2

\* C3: no Session is held by two callers, none is both idle and held, none
\* is twice in the idle queue
C3_ExclusiveOwnership ==
    /\ \A t, u \in Holders : t # u => held[t] # held[u]
    /\ \A t \in Holders : held[t] \notin Range(queue)
    /\ \A i, j \in DOMAIN queue : i # j => queue[i] # queue[j]

\* C3 witness: after a call has returned, one Session is held while another
\* is idle
C3_Witness ==
    /\ Holders # {} /\ queue # <<>>
    /\ last.status = "returned"

\* C4: the Sessions that exist, idle or held, are never more than pool_size
C4_SessionsWithinPoolSize ==
    Len(queue) + Cardinality(Holders) <= pool_size

\* C5 as stated: a caller that waited on the guard never goes on to launch
\* the engine itself
C5_WaitersNeverInitialize ==
    [][\A t \in Tasks : pc[t] = "lockwoken" => pc'[t] # "launch"]_vars

\* C5 amended: at most one task initializes at a time, and it owns the
\* guard; a started pool has a free guard; while the pool is started no
\* engine is launched and no Session is added, and a caller that waited on
\* the guard initializes only if the pool is still unstarted; an
\* initialization that completes leaves exactly pool_size Sessions of its
\* engine
C5_OneInitializationAtATime ==
    /\ [](/\ Cardinality(Initializing) <= 1
          /\ \A t \in Tasks : t \in Initializing <=> lock = t
          /\ started => lock = NoTask)
    /\ [][/\ started => /\ launches' = launches
                        /\ browser' = browser
                        /\ Range(queue') \cup {held'[t] : t \in Tasks}
                               \subseteq Existing \cup {NoPage}
          /\ \A t \in Tasks :
                (pc[t] = "lockwoken" /\ pc'[t] = "launch") => ~started
          /\ (~started /\ started') =>
                Cardinality({p \in Range(queue') \cup {held'[t] : t \in Tasks} :
                                p[1] = browser}) = pool_size]_vars

\* C5 witness: the pool is started while a caller still waits on the guard
C5_Witness ==
    started /\ \E t \in Tasks : pc[t] = "lockwoken"

\* C6: a scoring call that reaches the decision returns 1.0 exactly when
\* the result has neither errors nor action_errors
C6_ScoreIffNoErrors ==
    (last.kind = "score" /\ last.status = "returned" /\ last.stage = "decide")
        => (last.score = "1.0" <=> (~last.errors /\ ~last.action_errors))

\* C7: a scoring call whose bridge call failed ends by returning 0.0
C7_TransportFailureScoresZero ==
    (last.kind = "score" /\ last.stage = "transport")
        => (last.status = "returned" /\ last.score = "0.0")

\* C8: every scoring call that has begun its round-trip or stopped before
\* it returns a score and leaves a render entry
C8_AlwaysScoreAndRender ==
    (last.kind = "score" /\ last.stage # "start")
        => (last.status = "returned" /\ last.score \in {"0.0", "1.0"}
            /\ last.render # "none")

\* the operations a validate call of task t has issued on its Session when
\* it is suspended at pc
IssuedAt(t, at) ==
    CASE at = "reset" -> <<<<t, "reset">>>>
      [] at = "validate" -> <<<<t, "reset">>, <<t, "validate">>>>
      [] at = "shot" -> <<<<t, "reset">>, <<t, "validate">>, <<t, "post">>>>
      [] OTHER -> <<>>

\* C9: the operations issued on a Session since its lease are the holder's
\* own, reset first, then validate, then post-processing; a Session nobody
\* holds has none
C9_ResetValidatePost ==
    /\ \A t \in Tasks :
          pc[t] \in {"reset", "validate", "shot"} => ops[held[t]] = IssuedAt(t, pc[t])
    /\ \A p \in Pages : p \notin PagesHeld => ops[p] = <<>>

\* C9 witness: a call is post-processing while another caller's round-trip
\* is in flight on another Session
C9_Witness ==
    \E t, u \in Tasks :
        /\ t # u /\ pc[t] = "shot" /\ pc[u] \in {"reset", "validate"}
        /\ ops[held[t]] = <<<<t, "reset">>, <<t, "validate">>, <<t, "post">>>>

\* C10 as stated: a suspended caller that receives a Session is the one that
\* began waiting first
C10_WaitersServedInOrder ==
    [][\A t \in Tasks :
          (pc[t] = "woken" /\ held'[t] # NoPage) => t = Head(arrivals)]_vars

\* the idle queue as a lease by t sees it: the last turn of start() puts its
\* page before the lease
QueueAtLease(t) ==
    IF pc[t] = "open" THEN Append(queue, <<browser, opened + 1>>) ELSE queue

\* C10 amended: a release appends the Session to the tail of the idle queue
\* and wakes the caller at the head of the wait list; a lease takes the head
\* of the idle queue; a woken caller that finds the idle queue empty joins
\* the wait list again at its tail
C10_FifoQueueOldestWoken ==
    [][\A t \in Tasks :
          /\ (pc[t] \in Holding /\ pc'[t] \notin Holding) =>
                /\ queue' = Append(queue, held[t])
                /\ getters # <<>> => /\ pc'[Head(getters)] = "woken"
                                     /\ getters' = Tail(getters)
          /\ (held[t] = NoPage /\ held'[t] # NoPage) =>
                /\ held'[t] = Head(QueueAtLease(t))
                /\ queue' = Tail(QueueAtLease(t))
          /\ (pc[t] = "woken" /\ pc'[t] # "woken" /\ queue = <<>>) =>
                /\ pc'[t] = "wait"
                /\ getters' = Append(getters, t)]_vars

\* C10 witness: of two suspended callers, the one that began waiting first
\* is behind the other in the wait list
C10_Witness ==
    /\ Len(arrivals) = 2 /\ Len(getters) = 2
    /\ getters[1] = arrivals[2] /\ getters[2] = arrivals[1]

\* C11 as stated: every caller suspended at the lease point eventually
\* obtains a Session
C11_WaitersEventuallyServed ==
    \A t \in LiveCallers : (pc[t] = "wait") ~> (held[t] # NoPage)

\* C11 amended: callers never wait while no Session is held and none is
\* idle; every round-trip that has leased a Session ends and releases it;
\* every caller suspended at the lease point is eventually woken by a release
C11_NoDeadlockEveryWaiterWoken ==
    /\ []((\E t \in LiveCallers : pc[t] \in {"wait", "woken"})
             => (Holders # {} \/ queue # <<>>))
    /\ \A t \in LiveCallers : (pc[t] \in Holding) ~> (pc[t] = "idle")
    /\ \A t \in LiveCallers : (pc[t] = "wait") ~> (pc[t] = "woken")

\* C11 witness: on a started pool a caller has been woken by a release, and
\* another caller has taken the released Session before it ran
C11_Witness ==
    /\ started /\ queue = <<>>
    /\ \E t, u \in LiveCallers : pc[t] = "woken" /\ pc[u] \in Holding

\* C12: parse_response_json returns either an object and no error, or no
\* object and an error message
C12_ObjectXorError ==
    fn.at \in {"parsed", "reparsed"} =>
        \/ fn.out.data # None /\ fn.out.error = "None"
        \/ fn.out.data = None /\ fn.out.error # "None"

\* an object, as text
IsObject(s) == IsValue(s) /\ s # <<"n">>

\* a text that contains no JSON value
NonJson(s) ==
    \A i, j \in DOMAIN s : i <= j => ~IsValue(SubSeq(s, i, j))

\* C13: of a text that is not JSON as a whole and is made of a non-JSON
\* prefix, one JSON object and a non-JSON suffix, parse_response_json
\* returns that object and no error
C13_EmbeddedObjectExtracted ==
    (fn.at = "parsed" /\ ~IsValue(fn.text)) =>
        \A i, j \in DOMAIN fn.text :
            (/\ i <= j
             /\ IsObject(SubSeq(fn.text, i, j))
             /\ NonJson(SubSeq(fn.text, 1, i - 1))
             /\ NonJson(SubSeq(fn.text, j + 1, Len(fn.text))))
                => fn.out = [data |-> JsonValue(SubSeq(fn.text, i, j)), error |-> "None"]

\* a completion that is empty, or whose text yields no JSON, or whose JSON
\* is no object with a list under "actions"
Unusable(c) ==
    \/ c.empty
    \/ parse_response_json(c.text).error # "None"
    \/ parse_response_json(c.text).data \notin {<<"dict", "actions", <<"list">>>>}

\* render_and_score on every unusable completion, with or without a
\* validator: the stage it stops at
UnusableStages ==
    {EarlyStage(CompletionKind(c), v) :
        c \in {d \in Completions : Unusable(d)}, v \in BOOLEAN}

\* C14: a scoring call with an unusable completion stops at the empty, parse
\* or shape stage; a call that stops there returns 0.0 and leaves the pool
\* as it was: nothing leased, no bridge operation issued, no start
C14_EarlyStagesTouchNoSession ==
    /\ [](UnusableStages = {"empty", "parse", "shape"})
    /\ [][(last' # last /\ last'.stage \in {"empty", "parse", "shape"}) =>
            /\ last'.status = "returned" /\ last'.score = "0.0"
            /\ UNCHANGED <<started, lock, lockq, ready, launches, queue, getters,
                           pc, kind, held, ops>>]_vars

\* C14 witness: a scoring call has stopped at an early stage while the pool
\* is started and a Session is idle
C14_Witness ==
    /\ last.kind = "score" /\ last.stage \in {"empty", "parse", "shape"}
    /\ started /\ queue # <<>>

\* C15: a scoring call that returns has written actions into the state
\* mapping exactly when its score is 1.0
C15_ActionsOnlyOnSuccess ==
    (last.kind = "score" /\ last.status = "returned")
        => (last.actions <=> last.score = "1.0")

\* C16: a validate call whose bridge call failed ends with an error whose
\* message begins with "Validator failed:"
C16_ValidatorFailedMessage ==
    (last.kind = "validate" /\ last.stage = "transport")
        => (last.status = "raised" /\ ExceptionPrefix(last.stage) = "Validator failed:")

\* C17: image resolution never raises
C17_ImageResolutionNeverRaises == fn.at # "raised"

TargetAvailable == fn.has_path \/ fn.save_screenshots

\* C18 as stated: a decodable image with a target path available is
\* persisted there and the result is marked image_source = "engine_export"
C18_MarkedEngineExport ==
    (fn.at = "returned" /\ fn.image = "decodable" /\ TargetAvailable)
        => fn.res.image_source = "engine_export"

\* C18 amended: a decodable image with a target path available is persisted
\* at that path (the explicit one if given, else a generated one), the
\* result is marked image_source = "tldraw_export", nothing is appended to
\* errors and no fallback screenshot is taken
C18_MarkedTldrawExport ==
    (fn.at = "returned" /\ fn.image = "decodable" /\ TargetAvailable)
        => /\ fn.res.image_source = "tldraw_export"
           /\ fn.res.path = IF fn.has_path THEN "explicit" ELSE "generated"
           /\ fn.res.errors = {}
           /\ fn.shot = "none"

\* C18 witness: a decodable image was persisted at a generated path
C18_Witness ==
    /\ fn.at = "returned" /\ fn.image = "decodable"
    /\ ~fn.has_path /\ fn.save_screenshots /\ fn.res.path = "generated"

\* C19 as stated: for an image with an unknown encoding marker, the fallback
\* screenshot is attempted if saving is enabled, and otherwise the result
\* carries an export error, with or without screenshot_path
C19_UndecodableErrorOrFallback ==
    (fn.at = "returned" /\ fn.image = "undecodable")
        => /\ fn.save_screenshots => fn.shot # "none"
           /\ ~fn.save_screenshots => "export" \in fn.res.errors

\* C19 amended: an image with an unknown encoding marker never makes validate
\* raise; with saving enabled an export error is recorded and the fallback
\* screenshot attempted; with saving disabled no screenshot is attempted, and
\* the result carries an export error if screenshot_path was given and none
\* if it was not
C19_UndecodableByConfiguration ==
    /\ fn.image = "undecodable" => fn.at # "raised"
    /\ (fn.at = "returned" /\ fn.image = "undecodable")
        => /\ fn.save_screenshots => ("export" \in fn.res.errors /\ fn.shot # "none")
           /\ ~fn.save_screenshots =>
                /\ fn.shot = "none" /\ fn.res.image_source = "none"
                /\ fn.res.errors = IF fn.has_path THEN {"export"} ELSE {}

\* C19 witness: an undecodable image, saving disabled, no screenshot_path:
\* the result is returned with no error
C19_Witness ==
    /\ fn.at = "returned" /\ fn.image = "undecodable"
    /\ ~fn.save_screenshots /\ ~fn.has_path /\ fn.res.errors = {}

\* C20: with saving enabled and no image resolved by step 1, validate takes
\* the screenshot and returns; a capture that succeeded marks the result
\* page_screenshot with the target as image path, one that failed appends a
\* fallback error and leaves image_source unset
C20_FallbackScreenshot ==
    /\ (fn.at = "resolved" /\ fn.save_screenshots /\ fn.res.image_source = "none")
          => ENABLED (\E ok \in BOOLEAN : ImageFallback(ok))
    /\ (fn.at = "returned" /\ fn.save_screenshots /\ fn.image # "decodable")
          => /\ fn.shot # "none"
             /\ fn.shot = "ok" =>
                   /\ fn.res.image_source = "page_screenshot"
                   /\ fn.res.path = IF fn.has_path THEN "explicit" ELSE "generated"
                   /\ "fallback" \notin fn.res.errors
             /\ fn.shot = "failed" =>
                   /\ fn.res.image_source = "none"
                   /\ fn.res.path = "none"
                   /\ "fallback" \in fn.res.errors

\* C20 witness: the capture failed and validate returned with a fallback error
C20_Witness ==
    /\ fn.at = "returned" /\ fn.shot = "failed"
    /\ "fallback" \in fn.res.errors

\* ---- side effects of one call ----

\* a step of a call: a task moves, or start() opens one more page
CallStep == pc' # pc \/ opened' # opened

\* the image files one validate call persists, over all configurations and
\* payloads: one for the export of step 1, one for the screenshot of step 2
ImagesPersisted == {(IF c[1] = "exported" THEN 1 ELSE 0) + (IF c[2] THEN 1 ELSE 0) : c \in PostCases}

\* C21 as stated: no step of a call changes the pool (started, the engine,
\* the Sessions that exist)
C21_CallChangesNoPoolState ==
    [][CallStep => /\ started' = started
                   /\ browser' = browser
                   /\ launches' = launches
                   /\ Existing' = Existing]_vars

\* C21 amended: one call persists at most one image file and appends at most
\* one error-log line, and on a started pool no step of a call changes the
\* pool: started, the engine and the Sessions that exist stay as they are,
\* and the call moves only the Session it leases (a call on a pool that is
\* not started starts it first)
C21_AtMostOneImageOneLogLine ==
    /\ [](\A n \in ImagesPersisted : n <= 1)
    /\ [](LinesAppended(last) <= 1)
    /\ [][(CallStep /\ started) =>
            /\ started' = started
            /\ browser' = browser
            /\ launches' = launches
            /\ Existing' = Existing
            /\ closedEngines' = closedEngines
            /\ pool_size' = pool_size]_vars

\* C21 witness: a scoring call that leased a Session has returned on a pool
\* started once, and all the Sessions are idle again
C21_Witness ==
    /\ last.kind = "score" /\ last.status = "returned" /\ last.stage = "decide"
    /\ started /\ launches = 1 /\ Holders = {}
    /\ \A t \in Tasks : pc[t] = "idle"
    /\ Len(queue) = pool_size

\* C22: each failed scoring call appends exactly one line to errors.jsonl
C22_FailedCallAppendsOneLine ==
    (last.kind = "score" /\ last.status = "returned" /\ last.score = "0.0")
        => LinesAppended(last) = 1

\* C23: log_error_payload never raises
C23_LoggingNeverRaises == (fn.out.op = "log") => ~fn.out.raised

\* C24: the run tag, the screenshot run directory and the error-log path,
\* once set, are never changed by start, close, validate or
\* log_error_payload; only one tag is ever generated, and both directories
\* are built from it
C24_RunTagImmutable ==
    /\ [][/\ fn.r.run_tag # 0 => fn'.r.run_tag = fn.r.run_tag
          /\ fn.r.run_dir # 0 => fn'.r.run_dir = fn.r.run_dir
          /\ fn.r.error_log_path # 0 => fn'.r.error_log_path = fn.r.error_log_path]_vars
    /\ [](/\ fn.r.tags <= 1
          /\ fn.r.run_dir # 0 => fn.r.run_dir = fn.r.run_tag
          /\ fn.r.error_log_path # 0 => fn.r.error_log_path = fn.r.run_tag)

\* C24 witness: a client that was closed and started again has validated,
\* with its tag, both directories and a logged line in place
C24_Witness ==
    /\ fn.out.op = "validate" /\ ~fn.out.raised
    /\ fn.r.started /\ fn.r.closed
    /\ fn.r.run_tag # 0 /\ fn.r.run_dir # 0 /\ fn.r.error_log_path # 0
    /\ fn.r.lines >= 1

\* C25: an image path that validate generates lies in screenshot_dir / run
\* tag, never in screenshot_dir itself, and the error log, once it has a
\* path, lies in error_log_dir / the same run tag
C25_ArtifactsUnderRunTag ==
    /\ (fn.out.op = "validate" /\ fn.out.generated # <<>>)
          => (fn.r.run_tag # 0 /\ fn.out.generated = <<"screenshot_dir", fn.r.run_tag>>)
    /\ (fn.r.error_log_path # 0 /\ fn.r.run_dir # 0)
          => (fn.r.error_log_path = fn.r.run_dir /\ fn.r.run_dir = fn.r.run_tag)

\* C25 witness: validate generated an image path on a client whose error
\* log was created by log_error_payload before the pool was started
C25_Witness ==
    /\ fn.out.op = "validate" /\ fn.out.generated = <<"screenshot_dir", 1>>
    /\ fn.r.error_log_path = 1 /\ fn.r.lines >= 1 /\ ~fn.r.closed

\* the tasks whose call has been cancelled and has not ended yet
Abandoned == {t \in Tasks : pc[t] \in {"cancelled", "must_cancel"}}

\* C26: a cancelled call never takes a Session and ends holding none, a
\* Session it held is put back at the tail of the idle queue in the step in
\* which it ends, no Session is ever lost, a Session left idle by a cancelled
\* getter is passed on to the next waiter, and when no call is in flight the
\* queue offers all pool_size Sessions
C26_NoSessionLostOnCancel ==
    /\ [][/\ \A t \in Abandoned :
                /\ held'[t] \in {held[t], NoPage}
                /\ pc'[t] # pc[t] => (pc'[t] = "idle" /\ held'[t] = NoPage)
                /\ (pc'[t] # pc[t] /\ held[t] # NoPage) => queue' = Append(queue, held[t])
          /\ started => Existing' = Existing]_vars
    /\ []((queue # <<>> /\ getters # <<>>) => \E t \in Range(ready) : pc[t] \in {"woken", "must_cancel"})
    /\ []((started /\ \A t \in Tasks : pc[t] = "idle") => Len(queue) = pool_size)

\* C26 witness: a cancelled call has ended holding nothing, and the one
\* Session of the pool is held by another caller
C26_Witness ==
    /\ last.status = "raised" /\ last.stage = "cancelled"
    /\ pool_size = 1 /\ started
    /\ \E t, u \in Tasks : t # u /\ pc[t] = "idle" /\ held[u] # NoPage /\ pc[u] \in Holding
    /\ queue = <<>>

\* the lease point: suspended in Queue.get, or past it
AtLease == {"wait", "woken"} \cup Holding

\* C27: a lease on a pool that is not started starts it first (the caller
\* launches, or waits for the guard) and reaches Queue.get only once the
\* pool is started; a startup that raises ends the call with that error, no
\* Session taken and the queue as it was; on a started pool a caller that
\* moves only goes on to wait or to hold a Session, and no call ends at the
\* lease
C27_LeaseFailsOnlyAtStartup ==
    [][\A t \in Tasks :
          /\ (pc[t] = "idle" /\ pc'[t] # "idle" /\ ~started)
                => pc'[t] \in {"launch", "lockwait"}
          /\ (pc[t] \notin AtLease /\ pc'[t] \in AtLease) => started'
          /\ (pc[t] \in {"launch", "open"} /\ pc'[t] = "idle")
                => /\ last' = Raised(kind[t], "start")
                   /\ held' = held /\ queue' = queue /\ ~started'
          /\ (started /\ pc[t] \in {"idle", "lockwoken", "woken"} /\ pc'[t] # pc[t])
                => (pc'[t] \in AtLease /\ last' = last)
          /\ pc[t] = "wait" => pc'[t] \in {"wait", "woken"}]_vars

\* C27 witness: a startup has raised, leaving a Session in the queue, and a
\* later lease started the pool and holds a Session
C27_Witness ==
    /\ last.status = "raised" /\ last.stage = "start"
    /\ started /\ Holders # {} /\ queue # <<>>

\* C28: a result that validate returns carries image_dir exactly when the
\* client has a screenshot run directory, which it has when screenshot
\* saving is enabled, and error_log_path exactly when error logging is
\* enabled; with both disabled it carries neither
C28_ResultAnnotations ==
    (fn.out.op = "validate" /\ ~fn.out.raised)
        => /\ fn.out.image_dir # 0 <=> fn.r.run_dir # 0
           /\ fn.r.save_screenshots <=> fn.out.image_dir # 0
           /\ fn.r.log_errors <=> fn.out.error_log_path # 0
           /\ fn.out.image_dir \in {0, fn.r.run_tag}
           /\ fn.out.error_log_path \in {0, fn.r.run_tag}

\* C28 witness: validate returned on a client that logs errors and saves no
\* screenshots: the result carries error_log_path and no image_dir
C28_Witness ==
    /\ fn.out.op = "validate" /\ ~fn.out.raised
    /\ fn.r.log_errors /\ ~fn.r.save_screenshots
    /\ fn.out.error_log_path # 0 /\ fn.out.image_dir = 0

\* C29: a call made inside a running loop runs the function once, on the
\* one worker of its executor, ends only after the function has finished,
\* and ends as the direct call does: with the function's value or exception
\* (wrapped in RuntimeError by safe_fetch_system_prompt in both branches)
C29_IsolatedCallAsDirect ==
    /\ fn.runs <= 1 /\ fn.workers <= 1
    /\ fn.at = "returned" =>
          /\ fn.runs = 1
          /\ fn.workers = IF fn.loop_running THEN 1 ELSE 0
          /\ fn.out = DirectBranch(fn.which, fn.outcome)
          /\ fn.which = "run_blocking" => fn.out = fn.outcome
    /\ fn.at # "returned" => fn.out = NoOutcome

\* C29 witness: safe_fetch_system_prompt, called inside a running loop, has
\* ended with the RuntimeError that wraps the worker's exception
C29_Witness ==
    /\ fn.at = "returned" /\ fn.loop_running
    /\ fn.which = "safe_fetch_system_prompt"
    /\ fn.out.what = "RuntimeError" /\ fn.out.cause = "TimeoutError"

\* C30: no caller holds a Session of an engine that close() has closed, and
\* on a started pool the idle queue holds only Sessions of the engine the
\* latest start() launched
C30_ClosedSessionNeverLeased ==
    /\ \A t \in Holders : BridgeAlive(held[t])
    /\ started => \A p \in Range(queue) : p[1] = browser

\* C31: render_and_score calls validate on the validator passed to it when
\* there is one and else on the validator of the state mapping, and on no
\* other; with neither it returns 0.0 with a render error and calls no
\* validator; and it looks for the validator only after the empty, parse and
\* missing-actions checks, which stop the call whatever validators there are
C31_ExplicitValidatorFirst ==
    fn.at = "picked" =>
        /\ fn.explicit # "None" => fn.out.calls \subseteq {fn.explicit}
        /\ fn.explicit = "None" => fn.out.calls \subseteq {fn.stored} \ {"None"}
        /\ (fn.completion = "actions" /\ (fn.explicit # "None" \/ fn.stored # "None"))
              => (fn.out.stage = "validate" /\ fn.out.calls # {})
        /\ (fn.completion = "actions" /\ fn.explicit = "None" /\ fn.stored = "None")
              => /\ fn.out.stage = "novalidator" /\ fn.out.calls = {}
                 /\ fn.out.score = "0.0" /\ fn.out.render = "error"
        /\ fn.completion # "actions"
              => (fn.out.stage \in {"empty", "parse", "shape"} /\ fn.out.calls = {})

\* C31 witness: a call given validator A, with validator B in the state
\* mapping, has called validate on A
C31_Witness ==
    /\ fn.at = "picked" /\ fn.explicit = "A" /\ fn.stored = "B"
    /\ fn.out.stage = "validate" /\ fn.out.calls = {"A"}

\* C32: a start() that raises leaves the guard free and the pool not
\* started, and wakes the oldest caller waiting on the guard; a woken waiter
\* that finds the pool not started takes the guard and initializes again;
\* and no caller waits on the guard forever
C32_FailedStartReleasesGuard ==
    /\ [][\A t \in LiveCallers :
            /\ (pc[t] \in {"launch", "open"} /\ pc'[t] = "idle")
                  => /\ lock' = NoTask /\ ~started'
                     /\ lockq # <<>> => /\ pc'[Head(lockq)] = "lockwoken"
                                        /\ Head(lockq) \in Range(ready')
            /\ (pc[t] = "lockwoken" /\ pc'[t] # pc[t] /\ ~started)
                  => (pc'[t] = "launch" /\ lock' = t)
            /\ (pc[t] = "idle" /\ pc'[t] # pc[t] /\ ~started /\ lock = NoTask /\ lockq = <<>>)
                  => (pc'[t] = "launch" /\ lock' = t)]_vars
    /\ \A t \in LiveCallers : []<>(pc[t] # "lockwait")

\* C32 witness: a start() has just raised: the guard is free, the pool is
\* not started, and a caller that waited on the guard has been woken
C32_Witness ==
    /\ last.status = "raised" /\ last.stage = "start"
    /\ lock = NoTask /\ ~started
    /\ \E t \in LiveCallers : pc[t] = "lockwoken" /\ ready = <<t>>

\* C33: with save_screenshots and log_errors disabled and no
\* screenshot_path, a validate that returns has appended no error, set no
\* image_source, image_dir or error_log_path, left the image payload as it
\* was, generated no path, and the client has no run tag, no directory and
\* no log line; and the image steps do not make it raise
C33_DisabledValidateIsTransparent ==
    (fn.out.op = "validate" /\ ~fn.r.save_screenshots /\ ~fn.r.log_errors /\ ~fn.out.has_path)
        => /\ fn.out.raised => ~fn.r.started
           /\ ~fn.out.raised =>
                 /\ fn.out.res = NoRunOut.res
                 /\ fn.out.image_dir = 0 /\ fn.out.error_log_path = 0
                 /\ fn.out.generated = <<>>
           /\ fn.r.run_tag = 0 /\ fn.r.run_dir = 0 /\ fn.r.error_log_path = 0
           /\ fn.r.tags = 0 /\ fn.r.lines = 0

\* C33 witness: validate has returned, with both switches off and no
\* screenshot_path, on a client that was closed and started again
C33_Witness ==
    /\ fn.out.op = "validate" /\ ~fn.out.raised /\ fn.out.ret = "result"
    /\ ~fn.r.save_screenshots /\ ~fn.r.log_errors /\ ~fn.out.has_path
    /\ fn.r.started /\ fn.r.closed

\* C34: at most one spawned server process runs at a time; a process is
\* spawned only when none of the earlier ones runs, for a URL on this host
\* that did not answer; and a call whose URL answers, or is on another host,
\* or is the URL of the managed process that still runs, returns with
\* nothing spawned and nothing terminated
C34_AtMostOneServerProcess ==
    /\ [](Cardinality({i \in DOMAIN fn.procs : fn.procs[i].alive}) <= 1)
    /\ [][/\ Len(fn'.procs) > Len(fn.procs)
                => /\ \A i \in DOMAIN fn.procs : ~fn.procs[i].alive
                   /\ is_localhost(fn.call.url) /\ ~fn.call.live
          /\ (fn.at = "idle" /\ fn'.call # fn.call /\
                (fn'.call.live \/ ~is_localhost(fn'.call.url)
                    \/ (ManagedRuns(fn.procs)
                          /\ fn.procs[Len(fn.procs)].url = fn'.call.url)))
                => (fn'.procs = fn.procs /\ fn'.at = "idle"
                      /\ fn'.out = "returned")]_vars

\* C34 witness: a second server has been spawned, for the other local URL,
\* after the first, which was still running, had been terminated
C34_Witness ==
    /\ Len(fn.procs) = 2 /\ fn.at = "waiting"
    /\ fn.procs[1].url = "local_a" /\ fn.procs[2].url = "local_b"
    /\ ~fn.procs[1].alive /\ fn.procs[2].alive

\* C35: the vectors get_openai_embeddings returns are the embeddings of the
\* input prompts, one each and in input order, whatever the order in which
\* the batches completed; never more than `concurrency` requests in flight
C35_VectorsInInputOrder ==
    /\ Cardinality(InFlight(fn)) <= fn.c
    /\ fn.at = "returned" =>
            /\ Len(fn.vectors) = fn.n
            /\ \A i \in 1..fn.n : fn.vectors[i] = Embedding(Prompts(fn.n)[i])

\* C35 witness: the call has returned the vectors of three batches or more,
\* of which the second completed and was stored before the first
C35_Witness ==
    /\ fn.at = "returned" /\ Len(fn.taken) >= 3
    /\ fn.taken[1] = 2 /\ fn.taken[2] = 1

\* C36: normalize_prompt is idempotent, and two prompts that differ only in
\* case, whitespace or punctuation (the same words once punctuation is
\* deleted, case folded and whitespace trimmed and collapsed) are put in one
\* group by find_exact_match_groups(normalized=True)
C36_NormalizeIdempotent ==
    fn.at = "grouped" =>
        /\ \A i \in 1..2 : normalize_prompt(normalize_prompt(fn.prompts[i]))
                                = normalize_prompt(fn.prompts[i])
        /\ (/\ fn.normalized
            /\ collapse_whitespace(strip(remove_punctuation(
                    [i \in 1..Len(fn.prompts[1]) |->
                        IF fn.prompts[1][i] = "A" THEN "a" ELSE fn.prompts[1][i]])))
               = collapse_whitespace(strip(remove_punctuation(
                    [i \in 1..Len(fn.prompts[2]) |->
                        IF fn.prompts[2][i] = "A" THEN "a" ELSE fn.prompts[2][i]]))))
            => \E g \in fn.groups : g.idx = {1, 2}

====
